---- MODULE Spec2Model ----
(***************************************************************************)
(* Model of rust/src/main.rs: the command line tool that builds an ES512   *)
(* JWS over a JSON payload, derives the JWS with detached content and      *)
(* posts the signed request.                                               *)
(*                                                                         *)
(* Strings and byte buffers are sequences of byte values 0..255 (a Rust    *)
(* String is its UTF-8 bytes; every string of the model is ASCII).         *)
(***************************************************************************)
EXTENDS Integers, Sequences, FiniteSets, TLC

(***************************************************************************)
(* Bounds of the model.                                                    *)
(***************************************************************************)
\* r and s are drawn with natural lengths 1..MaxShort and, for a curve whose
\* order takes L bytes, (L - MaxShort + 1)..L.
MaxShort == 2
\* Strings handed to the detach step on its own are at most this long.
MaxDetachLen == 6

(***************************************************************************)
(* Program constants.                                                      *)
(***************************************************************************)
\* '.', the separator of format!("{}.{}", ..) and of jws.split(".")
DOT == 46
\* the fixed width of r and of s: 66 - r.len(), 66 - s.len()
FIELD_LEN == 66

(***************************************************************************)
(* ASCII text used by the program.                                         *)
(***************************************************************************)
Str_alg == <<97, 108, 103>>                       \* alg
Str_kid == <<107, 105, 100>>                      \* kid
Str_ES512 == <<69, 83, 53, 49, 50>>               \* ES512
Str_null == <<110, 117, 108, 108>>                \* null
Str_foo == <<102, 111, 111>>                      \* foo
Str_bar == <<98, 97, 114>>                        \* bar
QUOTE == <<34>>                                   \* "
BACKSLASH == <<92>>                               \* \
HexDigits == <<48, 49, 50, 51, 52, 53, 54, 55, 56, 57, 97, 98, 99, 100, 101, 102>>

Min(a, b) == IF a < b THEN a ELSE b

(***************************************************************************)
(* base64::encode_config(payload, URL_SAFE_NO_PAD)                         *)
(***************************************************************************)
\* The URL-safe alphabet: A-Z a-z 0-9 - _
B64Char(i) ==
    IF i < 26 THEN 65 + i
    ELSE IF i < 52 THEN 97 + (i - 26)
    ELSE IF i < 62 THEN 48 + (i - 52)
    ELSE IF i = 62 THEN 45 ELSE 95

\* The standard alphabet with '.' in place of '-': a wrong alphabet.
B64CharDotted(i) ==
    IF i < 26 THEN 65 + i
    ELSE IF i < 52 THEN 97 + (i - 26)
    ELSE IF i < 62 THEN 48 + (i - 52)
    ELSE IF i = 62 THEN 46 ELSE 95

B64EncodedLen(n) ==
    (n \div 3) * 4 + (IF n % 3 = 0 THEN 0 ELSE (n % 3) + 1)

ByteAt(b, j) == IF j <= Len(b) THEN b[j] ELSE 0

B64Sextet(b, i) ==
    LET g  == (i - 1) \div 4
        k  == (i - 1) % 4
        b0 == ByteAt(b, 3 * g + 1)
        b1 == ByteAt(b, 3 * g + 2)
        b2 == ByteAt(b, 3 * g + 3)
    IN  CASE k = 0 -> b0 \div 4
          [] k = 1 -> (b0 % 4) * 16 + (b1 \div 16)
          [] k = 2 -> (b1 % 16) * 4 + (b2 \div 64)
          [] k = 3 -> b2 % 64

\* No padding characters: a trailing group of 1 or 2 bytes gives 2 or 3 characters.
base64_encode_dotted(payload) ==
    [i \in 1..B64EncodedLen(Len(payload)) |-> B64CharDotted(B64Sextet(payload, i))]

base64_encode(payload) ==
    [i \in 1..B64EncodedLen(Len(payload)) |-> B64Char(B64Sextet(payload, i))]

\* A URL-safe decoder that tolerates missing padding (used to read the
\* segments of a JWS back).
B64Val(c) ==
    IF c >= 65 /\ c <= 90 THEN c - 65
    ELSE IF c >= 97 /\ c <= 122 THEN c - 97 + 26
    ELSE IF c >= 48 /\ c <= 57 THEN c - 48 + 52
    ELSE IF c = 45 THEN 62
    ELSE IF c = 95 THEN 63
    ELSE -1

B64DecodedLen(m) ==
    (m \div 4) * 3 + (IF m % 4 = 0 THEN 0 ELSE (m % 4) - 1)

IsBase64Url(t) ==
    /\ Len(t) % 4 # 1
    /\ \A i \in 1..Len(t) : B64Val(t[i]) >= 0

base64_decode(t) ==
    LET V(j) == IF j <= Len(t) THEN B64Val(t[j]) ELSE 0
    IN  [j \in 1..B64DecodedLen(Len(t)) |->
            LET g == (j - 1) \div 3
                k == (j - 1) % 3
                v0 == V(4 * g + 1)
                v1 == V(4 * g + 2)
                v2 == V(4 * g + 3)
                v3 == V(4 * g + 4)
            IN  CASE k = 0 -> v0 * 4 + (v1 \div 16)
                  [] k = 1 -> (v1 % 16) * 16 + (v2 \div 4)
                  [] k = 2 -> (v2 % 4) * 64 + v3]

(***************************************************************************)
(* serde_json: Value, Map, json!, to_string.                               *)
(* A Value is [t, s, n, m]: its type tag, string bytes, number, and, for   *)
(* an object, its members <<[k, v], ...>> in the Map's iteration order.    *)
(***************************************************************************)
JsonNull == [t |-> "null", s |-> <<>>, n |-> 0, m |-> <<>>]
JsonStr(x) == [t |-> "str", s |-> x, n |-> 0, m |-> <<>>]
JsonNum(k) == [t |-> "num", s |-> <<>>, n |-> k, m |-> <<>>]

\* Byte-wise lexicographic order of two strings (Ord for String).
LexLess(a, b) ==
    LET n == Min(Len(a), Len(b))
        diff == {i \in 1..n : a[i] # b[i]}
    IN  IF diff = {} THEN Len(a) < Len(b)
        ELSE LET i == CHOOSE x \in diff : \A y \in diff : x <= y
             IN  a[i] < b[i]

\* serde_json::Map is a BTreeMap (keys iterate sorted) or, with the crate's
\* preserve_order feature, an IndexMap (keys iterate in insertion order).
MapImpls == {"btree", "index"}

\* Map::insert: an existing key keeps its place and takes the new value.
MapInsert(m, k, v, impl) ==
    IF \E i \in 1..Len(m) : m[i].k = k
    THEN [i \in 1..Len(m) |-> IF m[i].k = k THEN [k |-> k, v |-> v] ELSE m[i]]
    ELSE IF impl = "btree"
         THEN LET before == Cardinality({i \in 1..Len(m) : LexLess(m[i].k, k)})
              IN  SubSeq(m, 1, before) \o <<[k |-> k, v |-> v]>>
                      \o SubSeq(m, before + 1, Len(m))
         ELSE Append(m, [k |-> k, v |-> v])

RECURSIVE MapFromEntries(_, _)
MapFromEntries(entries, impl) ==
    IF entries = <<>> THEN <<>>
    ELSE LET last == entries[Len(entries)]
         IN  MapInsert(MapFromEntries(SubSeq(entries, 1, Len(entries) - 1), impl),
                       last.k, last.v, impl)

\* Value::Object built from members given in source (or document) order.
JsonObj(entries, impl) ==
    [t |-> "obj", s |-> <<>>, n |-> 0, m |-> MapFromEntries(entries, impl)]

\* The string escaping of serde_json for printable ASCII: '"' and '\' get a
\* backslash, every other printable character is written as it is.
RECURSIVE EscapeStr(_)
EscapeStr(x) ==
    IF x = <<>> THEN <<>>
    ELSE (IF x[1] = 34 \/ x[1] = 92 THEN BACKSLASH \o <<x[1]>> ELSE <<x[1]>>)
             \o EscapeStr(Tail(x))

RECURSIVE Decimal(_)
Decimal(k) ==
    IF k < 0 THEN <<45>> \o Decimal(0 - k)
    ELSE IF k < 10 THEN <<48 + k>>
    ELSE Decimal(k \div 10) \o <<48 + (k % 10)>>

\* serde_json::to_string: the compact form, no insignificant whitespace.
RECURSIVE to_string(_)
to_string(v) ==
    LET RECURSIVE Members(_)
        Members(m) ==
            IF m = <<>> THEN <<>>
            ELSE QUOTE \o EscapeStr(m[1].k) \o QUOTE \o <<58>> \o to_string(m[1].v)
                     \o (IF Len(m) > 1 THEN <<44>> ELSE <<>>) \o Members(Tail(m))
    IN  CASE v.t = "null" -> Str_null
          [] v.t = "str" -> QUOTE \o EscapeStr(v.s) \o QUOTE
          [] v.t = "num" -> Decimal(v.n)
          [] v.t = "obj" -> <<123>> \o Members(v.m) \o <<125>>

\* Uuid::to_string: 16 bytes as lowercase hex, hyphenated 8-4-4-4-12.
UuidToString(u) ==
    [i \in 1..36 |->
        IF i \in {9, 14, 19, 24} THEN 45
        ELSE LET h == i - Cardinality({j \in {9, 14, 19, 24} : j < i})
                 byte == u[(h + 1) \div 2]
             IN  HexDigits[(IF h % 2 = 1 THEN byte \div 16 ELSE byte % 16) + 1]]

\* json!({"alg": "ES512", "kid": options.certificate_id.to_string()}): the
\* macro inserts the members into a Map in the order written.
HeaderMembersReversed(certificate_id) ==
    <<[k |-> Str_kid, v |-> JsonStr(UuidToString(certificate_id))],
      [k |-> Str_alg, v |-> JsonStr(Str_ES512)]>>

HeaderMembers(certificate_id) ==
    <<[k |-> Str_alg, v |-> JsonStr(Str_ES512)],
      [k |-> Str_kid, v |-> JsonStr(UuidToString(certificate_id))]>>

\* str::split("."): the segments between the separators, empty ones kept.
RECURSIVE Split(_)
Split(str) ==
    LET dots == {i \in 1..Len(str) : str[i] = DOT}
    IN  IF dots = {} THEN <<str>>
        ELSE LET i == CHOOSE x \in dots : \A y \in dots : x <= y
             IN  <<SubSeq(str, 1, i - 1)>> \o Split(SubSeq(str, i + 1, Len(str)))

(***************************************************************************)
(* openssl: EC keys, ECDSA signatures, big numbers.                        *)
(***************************************************************************)
\* The curves a key file may hold: three prime curves, a binary curve whose
\* order is longer than P-521's, and a curve given by explicit parameters.
Curves == {"prime256v1", "secp384r1", "secp521r1", "sect571r1", "explicit"}

\* EcGroupRef::curve_name: Option<Nid>, None for explicit parameters.
curve_name(pkey) == IF pkey.curve = "explicit" THEN "None" ELSE pkey.curve

\* The byte length of the curve's group order.
OrderLen(curve) ==
    CASE curve = "prime256v1" -> 32
      [] curve = "secp384r1" -> 48
      [] curve = "secp521r1" -> 66
      [] curve = "sect571r1" -> 72
      [] curve = "explicit" -> 32

\* The most significant byte of the order: 521 = 65 * 8 + 1 bits, 570 = 71 * 8 + 2.
OrderTopByte(curve) ==
    CASE curve = "secp521r1" -> 1
      [] curve = "sect571r1" -> 3
      [] OTHER -> 255

\* A big number is its base-256 digits, least significant first, the most
\* significant digit non-zero.  Those drawn are 0x01 00 .. 00 and
\* 0xFF 80 .. 80 of each length, below the order.
BigNums(curve) ==
    LET L == OrderLen(curve)
        lens == (1..MaxShort) \cup ((L - MaxShort + 1)..L)
        shape == {x \in lens \X {<<1, 0>>, <<255, 128>>} :
                      x[1] = L => x[2][1] <= OrderTopByte(curve)}
    IN  {[i \in 1..x[1] |-> IF i = x[1] THEN x[2][1] ELSE x[2][2]] : x \in shape}

\* EcdsaSig::sign: r and s are in 1..order-1; the nonce is random, so any
\* pair may come out for any digest.
EcdsaSigs(curve) == [r : BigNums(curve), s : BigNums(curve)]

\* BigNumRef::to_vec: the big-endian bytes, of minimal length.
to_vec(bn) ==
    LET top == {i \in 1..Len(bn) : bn[i] # 0}
        n == IF top = {} THEN 0 ELSE CHOOSE x \in top : \A y \in top : y <= x
    IN  [i \in 1..n |-> bn[n + 1 - i]]

\* A big-endian byte string read as an integer: its base-256 digit at
\* position i (0 is the least significant), and the same for a big number.
BEDigit(x, i) == IF i < Len(x) THEN x[Len(x) - i] ELSE 0
BNDigit(bn, i) == IF i < Len(bn) THEN bn[i + 1] ELSE 0
SameInteger(x, bn) ==
    \A i \in 0..(IF Len(x) > Len(bn) THEN Len(x) ELSE Len(bn)) : BEDigit(x, i) = BNDigit(bn, i)

\* usize subtraction a - b. Below zero it panics (overflow checks on) or
\* wraps to 2^64 - (b - a) (overflow checks off).
usize_sub(a, b) ==
    IF b <= a THEN [overflow |-> FALSE, v |-> a - b]
    ELSE [overflow |-> TRUE, v |-> b - a]

\* std::iter::repeat(0x00).take(n)
Zeros(n) == [i \in 1..n |-> 0]

NoSignature ==
    [kind |-> "none", value |-> <<>>, steps |-> <<>>, message |-> <<>>,
     structured_signature |-> [r |-> <<>>, s |-> <<>>],
     r |-> <<>>, s |-> <<>>, signature_bytes |-> <<>>, panic |-> ""]

\* Variants of sign_es512 with one step changed: the curve check made after
\* the hash ("late_check") or left out ("unchecked"), s written before r
\* ("swapped"), the zero bytes written after the field ("right_pad").
sign_es512_variant(payload, pkey, sig, overflow_checks, variant) ==
    LET r == to_vec(sig.r)
        s == to_vec(sig.s)
        pad_r == usize_sub(FIELD_LEN, Len(r))
        pad_s == usize_sub(FIELD_LEN, Len(s))
        signed == [NoSignature EXCEPT !.steps = <<"curve_check", "hash", "sign">>,
                                      !.message = payload,
                                      !.structured_signature = sig,
                                      !.r = r, !.s = s]
        field_r == IF variant = "right_pad" THEN r \o Zeros(pad_r.v)
                   ELSE Zeros(pad_r.v) \o r
        field_s == IF variant = "right_pad" THEN s \o Zeros(pad_s.v)
                   ELSE Zeros(pad_s.v) \o s
        signature_bytes == IF variant = "swapped" THEN field_s \o field_r
                           ELSE field_r \o field_s
    IN  IF variant # "unchecked" /\ curve_name(pkey) # "secp521r1"
        THEN [NoSignature EXCEPT !.kind = "err",
                                 !.steps = IF variant = "late_check"
                                           THEN <<"hash", "curve_check">>
                                           ELSE <<"curve_check">>]
        ELSE IF pad_r.overflow \/ pad_s.overflow
        THEN [signed EXCEPT !.kind = "panic",
                            !.panic = IF overflow_checks
                                      THEN "attempt to subtract with overflow"
                                      ELSE "capacity overflow"]
        ELSE [signed EXCEPT !.kind = "ok",
                            !.steps = <<"curve_check", "hash", "sign", "pad", "encode">>,
                            !.signature_bytes = signature_bytes,
                            !.value = base64_encode(signature_bytes)]

sign_es512_late_check(payload, pkey, sig, overflow_checks) ==
    sign_es512_variant(payload, pkey, sig, overflow_checks, "late_check")

sign_es512_unchecked(payload, pkey, sig, overflow_checks) ==
    sign_es512_variant(payload, pkey, sig, overflow_checks, "unchecked")

sign_es512_swapped(payload, pkey, sig, overflow_checks) ==
    sign_es512_variant(payload, pkey, sig, overflow_checks, "swapped")

sign_es512_right_pad(payload, pkey, sig, overflow_checks) ==
    sign_es512_variant(payload, pkey, sig, overflow_checks, "right_pad")

(***************************************************************************)
(* sign_es512.  sig is the pair EcdsaSig::sign draws, overflow_checks the  *)
(* build profile.  The result records the steps performed, in order.       *)
(***************************************************************************)
sign_es512(payload, pkey, sig, overflow_checks) ==
    IF curve_name(pkey) # "secp521r1"
    THEN [NoSignature EXCEPT !.kind = "err", !.steps = <<"curve_check">>]
    ELSE
    LET r == to_vec(sig.r)
        s == to_vec(sig.s)
        pad_r == usize_sub(FIELD_LEN, Len(r))
        pad_s == usize_sub(FIELD_LEN, Len(s))
        signed == [NoSignature EXCEPT !.steps = <<"curve_check", "hash", "sign">>,
                                      !.message = payload,
                                      !.structured_signature = sig,
                                      !.r = r, !.s = s]
    IN  IF pad_r.overflow \/ pad_s.overflow
        THEN \* the subtraction panics, or the wrapped count makes extend panic
             [signed EXCEPT !.kind = "panic",
                            !.panic = IF overflow_checks
                                      THEN "attempt to subtract with overflow"
                                      ELSE "capacity overflow"]
        ELSE LET signature_bytes == Zeros(pad_r.v) \o r \o Zeros(pad_s.v) \o s
             IN  [signed EXCEPT !.kind = "ok",
                                !.steps = <<"curve_check", "hash", "sign", "pad", "encode">>,
                                !.signature_bytes = signature_bytes,
                                !.value = base64_encode(signature_bytes)]

(***************************************************************************)
(* get_jws                                                                 *)
(***************************************************************************)
\* get_jws signing the payload string itself, not its base64url encoding.
get_jws_signs_raw_payload(header, payload, pkey, sig, overflow_checks) ==
    LET to_be_signed == base64_encode(to_string(header)) \o <<DOT>> \o payload
        signature == sign_es512(to_be_signed, pkey, sig, overflow_checks)
    IN  IF signature.kind # "ok"
        THEN [kind |-> signature.kind, jws |-> <<>>, signature |-> signature]
        ELSE [kind |-> "ok",
              jws |-> base64_encode(to_string(header)) \o <<DOT>>
                          \o base64_encode(payload) \o <<DOT>> \o signature.value,
              signature |-> signature]

get_jws(header, payload, pkey, sig, overflow_checks) ==
    LET to_be_signed == base64_encode(to_string(header)) \o <<DOT>>
                            \o base64_encode(payload)
        signature == sign_es512(to_be_signed, pkey, sig, overflow_checks)
    IN  IF signature.kind # "ok"
        THEN [kind |-> signature.kind, jws |-> <<>>, signature |-> signature]
        ELSE [kind |-> "ok",
              jws |-> base64_encode(to_string(header)) \o <<DOT>>
                          \o base64_encode(payload) \o <<DOT>> \o signature.value,
              signature |-> signature]

(***************************************************************************)
(* The detach step of main: jws.split(".") and parts[0], parts[2].         *)
(***************************************************************************)
\* The detach step taking the segment after the header: parts[0], parts[1].
Detach_wrong_index(compact) ==
    LET parts == Split(compact)
    IN  IF Len(parts) < 3
        THEN [kind |-> "panic", value |-> <<>>]
        ELSE [kind |-> "ok", value |-> parts[1] \o <<DOT, DOT>> \o parts[2]]

Detach(compact) ==
    LET parts == Split(compact)
    IN  IF Len(parts) < 3
        THEN [kind |-> "panic", value |-> <<>>]      \* index out of bounds
        ELSE [kind |-> "ok", value |-> parts[1] \o <<DOT, DOT>> \o parts[3]]

(***************************************************************************)
(* The command line and the files it names.                                *)
(***************************************************************************)
\* A JSON document as written in the payload file: a Value whose object
\* members are in the order of the text.
DocStr(x) == [t |-> "str", s |-> x, n |-> 0, m |-> <<>>]
DocNum(k) == [t |-> "num", s |-> <<>>, n |-> k, m |-> <<>>]
DocObj(members) == [t |-> "obj", s |-> <<>>, n |-> 0, m |-> members]

Documents ==
    { DocObj(<<[k |-> Str_foo, v |-> DocStr(Str_bar)]>>),          \* {"foo":"bar"}
      DocObj(<<[k |-> <<98>>, v |-> DocNum(250)],                  \* {"b":250,"a":"x\"y"}
               [k |-> <<97>>, v |-> DocStr(<<120, 34, 121>>)]>>),
      DocObj(<<[k |-> <<111>>, v |-> DocObj(<<[k |-> <<107>>, v |-> JsonNull]>>)],
               [k |-> <<97>>, v |-> DocNum(-7)],                   \* {"o":{"k":null},"a":-7,"a":"\\"}
               [k |-> <<97>>, v |-> DocStr(<<92>>)]>>),
      DocNum(0) }                                                  \* 0

PayloadFiles ==
    {[kind |-> k, doc |-> JsonNull] : k \in {"unreadable", "not_json"}}
        \cup {[kind |-> "json", doc |-> d] : d \in Documents}

KeyFiles ==
    {[kind |-> k, curve |-> "secp521r1"] :
         k \in {"unreadable", "not_pem", "not_ec", "check_failed"}}
        \cup {[kind |-> "ec", curve |-> c] : c \in Curves}

CertificateIds ==
    { [i \in 1..16 |-> 17],                        \* 11111111-1111-1111-1111-111111111111
      [i \in 1..16 |-> (i * 37 + 134) % 256] }

\* serde_json::from_slice: the members of an object are inserted into a Map in
\* document order.
RECURSIVE FromDocument(_, _)
FromDocument(d, impl) ==
    IF d.t = "obj"
    THEN JsonObj([i \in 1..Len(d.m) |->
                     [k |-> d.m[i].k, v |-> FromDocument(d.m[i].v, impl)]], impl)
    ELSE d

\* Command::payload
payload(file, impl) ==
    CASE file.kind = "unreadable" ->
             [ok |-> FALSE, value |-> JsonNull,
              error |-> "Failed to read the request payload file."]
      [] file.kind = "not_json" ->
             [ok |-> FALSE, value |-> JsonNull,
              error |-> "Failed to parse the request payload as JSON."]
      [] file.kind = "json" ->
             [ok |-> TRUE, value |-> FromDocument(file.doc, impl), error |-> ""]

NoKey == [curve |-> "none"]

\* Command::private_key
private_key_of(file) ==
    CASE file.kind = "unreadable" ->
             [ok |-> FALSE, value |-> NoKey, error |-> "Failed to read the private key file."]
      [] file.kind = "not_pem" ->
             [ok |-> FALSE, value |-> NoKey, error |-> "Failed to parse the private key as PEM."]
      [] file.kind = "not_ec" ->
             [ok |-> FALSE, value |-> NoKey,
              error |-> "The private key must be an Elliptic Curve key."]
      [] file.kind = "check_failed" ->
             [ok |-> FALSE, value |-> NoKey, error |-> "Key verification failed"]
      [] file.kind = "ec" ->
             [ok |-> TRUE, value |-> [curve |-> file.curve], error |-> ""]

NoRequest == [sent |-> FALSE, signature_header |-> <<>>, content_type |-> "", body |-> <<>>]

(***************************************************************************)
(* The state of one run of main.                                           *)
(***************************************************************************)
VARIABLES
    pc,             \* the position of main
    options,        \* the parsed command line: the two files, the certificate id
    map_impl,       \* the build's serde_json::Map
    jws_header,     \* the header Value
    jws_payload,    \* the serialized payload string
    private_key,    \* the loaded key
    signing,        \* what sign_es512 did in this run
    jws,            \* the compact JWS
    detached_jsw,   \* the JWS with detached content
    stdout,         \* what has been printed, in order
    request,        \* the POST request sent
    error           \* the error or panic main ended with

vars == <<pc, options, map_impl, jws_header, jws_payload, private_key, signing,
          jws, detached_jsw, stdout, request, error>>

Init ==
    /\ pc = "start"
    /\ options \in [payload_file : PayloadFiles, private_key_file : KeyFiles,
                    certificate_id : CertificateIds]
    /\ map_impl \in MapImpls
    /\ jws_header = JsonNull
    /\ jws_payload = <<>>
    /\ private_key = NoKey
    /\ signing = NoSignature
    /\ jws = <<>>
    /\ detached_jsw = <<>>
    /\ stdout = <<>>
    /\ request = NoRequest
    /\ error = ""

\* main, lines 65-68
BuildHeader ==
    /\ pc = "start"
    /\ jws_header' = JsonObj(HeaderMembers(options.certificate_id), map_impl)
    /\ pc' = "header"
    /\ UNCHANGED <<options, map_impl, jws_payload, private_key, signing, jws,
                   detached_jsw, stdout, request, error>>

\* LoadPayload going on with a null payload when the file cannot be loaded.
LoadPayload_ignoring_error ==
    /\ pc = "header"
    /\ LET loaded == payload(options.payload_file, map_impl)
       IN  jws_payload' = to_string(loaded.value)
    /\ pc' = "payload"
    /\ UNCHANGED <<options, map_impl, jws_header, private_key, signing, jws,
                   detached_jsw, stdout, request, error>>

\* main, lines 69-70: options.payload()? and the one serde_json::to_string
LoadPayload ==
    /\ pc = "header"
    /\ LET loaded == payload(options.payload_file, map_impl)
       IN  IF loaded.ok
           THEN /\ jws_payload' = to_string(loaded.value)
                /\ pc' = "payload"
                /\ error' = error
           ELSE /\ jws_payload' = jws_payload
                /\ pc' = "failed"
                /\ error' = loaded.error
    /\ UNCHANGED <<options, map_impl, jws_header, private_key, signing, jws,
                   detached_jsw, stdout, request>>

\* main, line 71: options.private_key()?
LoadKey ==
    /\ pc = "payload"
    /\ LET loaded == private_key_of(options.private_key_file)
       IN  IF loaded.ok
           THEN /\ private_key' = loaded.value
                /\ pc' = "key"
                /\ error' = error
           ELSE /\ private_key' = private_key
                /\ pc' = "failed"
                /\ error' = loaded.error
    /\ UNCHANGED <<options, map_impl, jws_header, jws_payload, signing, jws,
                   detached_jsw, stdout, request>>

\* main, line 73: get_jws(&jws_header, &jws_payload, private_key)?
GetJws ==
    /\ pc = "key"
    /\ \E sig \in EcdsaSigs(private_key.curve), overflow_checks \in BOOLEAN :
          LET got == get_jws(jws_header, jws_payload, private_key, sig, overflow_checks)
          IN  /\ signing' = got.signature
              /\ jws' = got.jws
              /\ pc' = CASE got.kind = "ok" -> "jws"
                         [] got.kind = "err" -> "failed"
                         [] got.kind = "panic" -> "panicked"
              /\ error' = CASE got.kind = "ok" -> error
                            [] got.kind = "err" ->
                                "The underlying elliptic curve must be P-521 to sign using ES512."
                            [] got.kind = "panic" -> got.signature.panic
    /\ UNCHANGED <<options, map_impl, jws_header, jws_payload, private_key,
                   detached_jsw, stdout, request>>

\* main, line 74
PrintJws ==
    /\ pc = "jws"
    /\ stdout' = Append(stdout, [what |-> "JWS", text |-> jws])
    /\ pc' = "printed_jws"
    /\ UNCHANGED <<options, map_impl, jws_header, jws_payload, private_key, signing,
                   jws, detached_jsw, request, error>>

\* main, lines 76-79
DetachStep ==
    /\ pc = "printed_jws"
    /\ LET d == Detach(jws)
       IN  IF d.kind = "ok"
           THEN /\ detached_jsw' = d.value
                /\ stdout' = Append(stdout, [what |-> "JWS with detached content",
                                             text |-> d.value])
                /\ pc' = "printed_detached"
                /\ error' = error
           ELSE /\ detached_jsw' = detached_jsw
                /\ stdout' = stdout
                /\ pc' = "panicked"
                /\ error' = "index out of bounds"
    /\ UNCHANGED <<options, map_impl, jws_header, jws_payload, private_key, signing,
                   jws, request>>

\* main, lines 81-89: the request is built and sent; no response is a panic
SendRequest ==
    /\ pc = "printed_detached"
    /\ request' = [sent |-> TRUE, signature_header |-> detached_jsw,
                   content_type |-> "application/json", body |-> jws_payload]
    /\ \E outcome \in {"success", "failure", "no_response"} :
          IF outcome = "no_response"
          THEN pc' = "panicked" /\ error' = "Failed to get response"
          ELSE pc' = outcome /\ error' = error
    /\ UNCHANGED <<options, map_impl, jws_header, jws_payload, private_key, signing,
                   jws, detached_jsw, stdout>>

\* main, lines 90-101
Report ==
    /\ pc \in {"success", "failure"}
    /\ stdout' = Append(stdout,
                        [what |-> IF pc = "success"
                                  THEN "The request to Payouts API /test endpoint succeeded!"
                                  ELSE "The request to Payouts API /test endpoint failed",
                         text |-> <<>>])
    /\ pc' = "done"
    /\ UNCHANGED <<options, map_impl, jws_header, jws_payload, private_key, signing,
                   jws, detached_jsw, request, error>>

Next ==
    \/ BuildHeader
    \/ LoadPayload
    \/ LoadKey
    \/ GetJws
    \/ PrintJws
    \/ DetachStep
    \/ SendRequest
    \/ Report

Spec == Init /\ [][Next]_vars

(***************************************************************************)
(* The detach step on its own, applied to any string of 'A's and '.'s.     *)
(***************************************************************************)
RECURSIVE StringsUpTo(_)
StringsUpTo(n) ==
    IF n = 0 THEN {<<>>}
    ELSE LET shorter == StringsUpTo(n - 1)
         IN  shorter \cup {Append(x, c) : x \in shorter, c \in {65, DOT}}

InitDetach ==
    /\ pc = "printed_jws"
    /\ jws \in StringsUpTo(MaxDetachLen)
    /\ stdout = <<[what |-> "JWS", text |-> jws]>>
    /\ options \in [payload_file : {[kind |-> "json", doc |-> DocNum(0)]},
                    private_key_file : {[kind |-> "ec", curve |-> "secp521r1"]},
                    certificate_id : {[i \in 1..16 |-> 17]}]
    /\ map_impl = "btree"
    /\ jws_header = JsonObj(HeaderMembers(options.certificate_id), map_impl)
    /\ jws_payload = <<48>>
    /\ private_key = [curve |-> "secp521r1"]
    /\ signing = NoSignature
    /\ detached_jsw = <<>>
    /\ request = NoRequest
    /\ error = ""

NextDetach == DetachStep

SpecDetach == InitDetach /\ [][NextDetach]_vars

(***************************************************************************)
(* Properties.                                                             *)
(***************************************************************************)
\* get_jws has been called and has returned (or panicked).
GetJwsReturned == private_key # NoKey /\ pc # "key"

\* The three segments of the compact JWS.
Segments == Split(jws)

Count(str, c) == Cardinality({i \in 1..Len(str) : str[i] = c})

CurveMismatchError == "The underlying elliptic curve must be P-521 to sign using ES512."

\* C1: with a key whose curve is not P-521, sign_es512 returns the error
\* after the curve check alone (no hash, no ECDSA signature, no signature
\* bytes), whatever the message and whatever r and s would have been, and
\* get_jws passes the error on and returns no JWS; the curve check is the
\* first step of every call.
C1_CurveMismatchFirst ==
    /\ (GetJwsReturned /\ private_key.curve # "secp521r1") =>
           /\ signing.kind = "err"
           /\ signing.steps = <<"curve_check">>
           /\ signing.message = <<>>
           /\ signing.structured_signature = NoSignature.structured_signature
           /\ signing.signature_bytes = <<>>
           /\ signing.value = <<>>
           /\ jws = <<>>
           /\ pc = "failed"
           /\ error = CurveMismatchError
    /\ GetJwsReturned => signing.steps[1] = "curve_check"

C1_Witness ==
    /\ GetJwsReturned
    /\ private_key.curve \in {"prime256v1", "explicit"}
    /\ signing.kind = "err"
    /\ pc = "failed"

\* C2: with a P-521 key every call signs, and the bytes that are
\* base64url-encoded are exactly 132: the first 66 read as a big-endian
\* integer are r, the last 66 are s; the signature segment of the JWS
\* decodes to these 132 bytes.
C2_SignatureIs132Bytes ==
    (GetJwsReturned /\ private_key.curve = "secp521r1") =>
        /\ signing.kind = "ok"
        /\ Len(signing.signature_bytes) = 132
        /\ SameInteger(SubSeq(signing.signature_bytes, 1, 66),
                       signing.structured_signature.r)
        /\ SameInteger(SubSeq(signing.signature_bytes, 67, 132),
                       signing.structured_signature.s)
        /\ Len(Segments) = 3
        /\ IsBase64Url(Segments[3])
        /\ base64_decode(Segments[3]) = signing.signature_bytes

C2_Witness ==
    /\ signing.kind = "ok"
    /\ Len(signing.r) = 2
    /\ Len(signing.s) = 66
    /\ Len(base64_decode(Segments[3])) = 132

\* The 66-byte field of the signature that starts at byte from + 1.
Field(from) == SubSeq(signing.signature_bytes, from + 1, from + 66)

\* field is bytes with exactly 66 - Len(bytes) zero bytes put before it.
LeftPadded(field, bytes) ==
    /\ Len(field) = 66
    /\ \A i \in 1..(66 - Len(bytes)) : field[i] = 0
    /\ \A i \in 1..Len(bytes) : field[66 - Len(bytes) + i] = bytes[i]

\* C3: an r or s whose minimal big-endian encoding has n < 66 bytes is
\* padded with exactly 66 - n zero bytes in front: the field is 66 bytes,
\* ends with the n bytes unchanged and is the same integer; the padding of
\* r depends on r alone and that of s on s alone.
C3_LeftPadPreservesValue ==
    signing.kind = "ok" =>
        /\ Len(signing.r) < 66 =>
               /\ LeftPadded(Field(0), signing.r)
               /\ SameInteger(Field(0), signing.structured_signature.r)
        /\ Len(signing.s) < 66 =>
               /\ LeftPadded(Field(66), signing.s)
               /\ SameInteger(Field(66), signing.structured_signature.s)

C3_Witness ==
    /\ signing.kind = "ok"
    /\ Len(signing.r) = 1
    /\ Len(signing.s) = 65
    /\ signing.s[65] = 0
    /\ Field(0)[66] = signing.r[1]

\* C4: with a P-521 key get_jws returns a string with exactly two '.' and
\* three segments, each non-empty and made of base64url characters only.
C4_ThreeSegments ==
    (GetJwsReturned /\ private_key.curve = "secp521r1") =>
        /\ jws # <<>>
        /\ Count(jws, DOT) = 2
        /\ Len(Segments) = 3
        /\ \A i \in 1..3 : /\ Segments[i] # <<>>
                           /\ Count(Segments[i], DOT) = 0
                           /\ IsBase64Url(Segments[i])

C4_Witness ==
    /\ pc = "jws"
    /\ jws_payload = <<48>>
    /\ Count(jws, DOT) = 2
    /\ Len(Segments[2]) = 2

\* C5: the bytes sign_es512 signed are segment 0, '.', segment 1 of the JWS
\* returned; segment 1 decodes to the one serialized payload string, and the
\* body of the request sent is that same string.
C5_PayloadReusedVerbatim ==
    /\ jws # <<>> =>
           /\ signing.message = Segments[1] \o <<DOT>> \o Segments[2]
           /\ base64_decode(Segments[2]) = jws_payload
           /\ jws_payload =
                  to_string(payload(options.payload_file, map_impl).value)
    /\ request.sent =>
           /\ request.body = jws_payload
           /\ request.body = base64_decode(Segments[2])

C5_Witness ==
    /\ request.sent
    /\ map_impl = "index"
    /\ Len(options.payload_file.doc.m) = 2
    /\ request.body = base64_decode(Segments[2])

\* C6: the detached JWS is the first segment of the compact JWS, "..", and
\* its third segment: split on '.', it is the header segment, an empty
\* segment and the signature segment; it, not the compact JWS, is the
\* X-TL-Signature header of the request.
C6_DetachedKeepsHeaderAndSignature ==
    /\ detached_jsw # <<>> =>
           /\ Split(detached_jsw) = <<Segments[1], <<>>, Segments[3]>>
           /\ Len(detached_jsw) = Len(Segments[1]) + 2 + Len(Segments[3])
           /\ Len(stdout) >= 2
           /\ stdout[2].text = detached_jsw
    /\ request.sent =>
           /\ detached_jsw # <<>>
           /\ request.signature_header = detached_jsw
           /\ request.signature_header # jws

C6_Witness ==
    /\ request.sent
    /\ request.signature_header = Segments[1] \o <<DOT, DOT>> \o Segments[3]

\* {"alg":"ES512","kid":"<identifier>"}
ExpectedHeader(certificate_id) ==
    <<123>> \o QUOTE \o Str_alg \o QUOTE \o <<58>> \o QUOTE \o Str_ES512 \o QUOTE
        \o <<44>> \o QUOTE \o Str_kid \o QUOTE \o <<58>>
        \o QUOTE \o UuidToString(certificate_id) \o QUOTE \o <<125>>

\* The header with its members in the other order in the Map.
HeaderMapReversed ==
    [jws_header EXCEPT !.m = [i \in 1..Len(jws_header.m) |->
                                  jws_header.m[Len(jws_header.m) + 1 - i]]]

C8_FailFast ==
    /\ (options.payload_file.kind # "json" /\ pc \notin {"start", "header"}) =>
           pc = "failed" /\ error = payload(options.payload_file, map_impl).error
    /\ (options.payload_file.kind = "json" /\ options.private_key_file.kind # "ec"
            /\ pc \notin {"start", "header", "payload"}) =>
           pc = "failed" /\ error = private_key_of(options.private_key_file).error
    /\ (GetJwsReturned /\ signing.kind # "ok") =>
           pc \in {"failed", "panicked"} /\ error # ""
    /\ pc = "failed" =>
           /\ error # ""
           /\ stdout = <<>>
           /\ jws = <<>>
           /\ detached_jsw = <<>>
           /\ ~request.sent
    /\ stdout # <<>> =>
           /\ signing.kind = "ok"
           /\ stdout[1] = [what |-> "JWS", text |-> jws]
    /\ Len(stdout) >= 2 =>
           stdout[2] = [what |-> "JWS with detached content", text |-> detached_jsw]
    /\ request.sent => Len(stdout) >= 2
    /\ pc = "jws" => stdout = <<>> /\ ~request.sent

C8_Witness ==
    /\ pc = "failed"
    /\ options.payload_file.kind = "not_json"
    /\ options.private_key_file.kind = "ec"
    /\ stdout = <<>>

C10_PadCountsNeverUnderflow ==
    /\ signing.structured_signature # NoSignature.structured_signature =>
           /\ Len(signing.r) <= 66
           /\ Len(signing.s) <= 66
           /\ ~usize_sub(FIELD_LEN, Len(signing.r)).overflow
           /\ ~usize_sub(FIELD_LEN, Len(signing.s)).overflow
           /\ usize_sub(FIELD_LEN, Len(signing.r)).v \in 0..66
           /\ usize_sub(FIELD_LEN, Len(signing.s)).v \in 0..66
           /\ signing.kind = "ok"
    /\ pc = "key" =>
           \A long \in {x \in BigNums("sect571r1") : Len(x) > 66},
              short \in BigNums("secp521r1"), oc \in BOOLEAN :
               LET res == sign_es512(<<>>, [curve |-> "secp521r1"],
                                     [r |-> long, s |-> short], oc)
               IN  /\ res.kind = "panic"
                   /\ res.signature_bytes = <<>>
                   /\ res.value = <<>>

C10_Witness ==
    /\ signing.kind = "ok"
    /\ Len(signing.r) = 66
    /\ Len(signing.s) = 66
    /\ usize_sub(FIELD_LEN, Len(signing.r)).v = 0

====
